---- MODULE Spec2Model ----
(***************************************************************************)
(* Model of src/applications.py: the FastAPI application registry.         *)
(*                                                                         *)
(* Python lists are objects: `routes or []` keeps the caller's list when   *)
(* it is non-empty and makes a fresh list otherwise, so route lists and    *)
(* middleware sequences live in heaps and a registry holds a reference.    *)
(* Truthiness (`x or y`, `if x:`, `if not x:`) is modelled as Python       *)
(* computes it: None, "", [], (), {} are all false.                        *)
(***************************************************************************)
EXTENDS Integers, Sequences, FiniteSets, TLC

\* ---------------------------------------------------------------- bounds
MaxRoutes == 2
MaxMiddleware == 1
MaxGenCalls == 2

\* ------------------------------------------------------------ value sets
Apps == {"A", "B"}
Generators == {"full", "empty_without_routes"}
RouteObjs == {"r1", "r2"}
Paths == {"/", "/items"}
MwClasses == {"GZipMiddleware"}
MwOptions == {"none", "opt=1"}
Prefixes == {"", "/api"}

\* Python None for a str-typed parameter.
NoneStr == "<None>"
\* Python None / a present sequence (or mapping, as its item sequence).
NoneSeq == [isNone |-> TRUE, v |-> <<>>]
Some(s) == [isNone |-> FALSE, v |-> s]

\* bool(x) of an Optional[str].
TruthyStr(s) == s # NoneStr /\ s # ""
\* bool(x) of an Optional[list | tuple | dict].
TruthySeq(o) == ~o.isNone /\ o.v # <<>>

\* Schema slots: None, or a dict.  A dict is its item sequence: the empty
\* dict {} has no items, a generated document carries the generator's inputs.
NoneDoc == [isNone |-> TRUE, items |-> <<>>]
EmptyDoc == [isNone |-> FALSE, items |-> <<>>]
FullDoc(args) == [isNone |-> FALSE, items |-> <<args>>]
\* bool(x) of an Optional[Dict].
TruthyDoc(d) == ~d.isNone /\ d.items # <<>>

\* Middleware(middleware_class, **options) (line 77).
Middleware(cls, options) == [cls |-> cls, options |-> options]

\* Heap identities of sequence objects.  Fresh(a) is the list `[]` created
\* inside a's constructor; "R.routes" is the route list of an APIRouter R that
\* is no registry; the others are the caller's objects handed to constructors:
\* a non-empty and an empty route list, a non-empty middleware list, a
\* non-empty and an empty middleware tuple.
Fresh(a) == "fresh" \o a
RouterRoutes == "R.routes"
CallerObjects ==
    [ L  |-> [tuple |-> FALSE, items |-> <<"r1">>],
      E  |-> [tuple |-> FALSE, items |-> <<>>],
      M  |-> [tuple |-> FALSE, items |-> <<Middleware("CORSMiddleware", "none")>>],
      T  |-> [tuple |-> TRUE,  items |-> <<Middleware("CORSMiddleware", "none")>>],
      ET |-> [tuple |-> TRUE,  items |-> <<>>] ]
RouteLists == {"L", "E", RouterRoutes} \cup {Fresh(a) : a \in Apps}
MwSeqs == {"M", "T", "ET"} \cup {Fresh(a) : a \in Apps}

VARIABLES
    app,        \* app[a]: the attributes of registry a (lines 50-70)
    ctor,       \* ctor[a]: the keyword arguments a was constructed with
    routeHeap,  \* routeHeap[id]: contents of a route list object
    mwHeap,     \* mwHeap[id]: [tuple, items] of a middleware sequence object
    generator,  \* which function the external schema generator is
    genCalls,   \* number of invocations of the external generator
    firstDoc,   \* firstDoc[a]: <<D>> once openapi() on a has returned D
    ret         \* the last call: operation, receiver, outcome

vars == <<app, ctor, routeHeap, mwHeap, generator, genCalls, firstDoc, ret>>

\* ----------------------------------------------------------- constructor
\* `x or []` / `x or {}` for a collection stored by value (lines 63-65, 67).
OrEmptyDropped(x) == x
OrEmpty(x) == IF TruthySeq(x) THEN x ELSE Some(<<>>)

\* `self.routes = routes or []` (line 51): the reference stored.
RoutesRefShared(a, arg, heap) == IF arg # "None" /\ heap[arg] # <<>> THEN arg ELSE "E"
RoutesRef(a, arg, heap) ==
    IF arg # "None" /\ heap[arg] # <<>> THEN arg ELSE Fresh(a)

\* `self.middleware = middleware or []` (line 62): the reference stored.
MiddlewareRef(a, arg, heap) ==
    IF arg # "None" /\ heap[arg].items # <<>> THEN arg ELSE Fresh(a)

\* Keyword arguments of FastAPI(...) (lines 27-49): collections omitted,
\* passed empty, or passed non-empty.
Omitted ==
    [exception_handlers |-> NoneSeq, on_startup |-> NoneSeq, on_shutdown |-> NoneSeq,
     dependencies |-> NoneSeq, openapi_tags |-> NoneSeq, servers |-> NoneSeq,
     debug |-> FALSE, openapi_url |-> "/openapi.json", docs_url |-> "/docs",
     redoc_url |-> "/redoc", swagger_ui_oauth2_redirect_url |-> "/docs/oauth2-redirect",
     swagger_ui_init_oauth |-> NoneSeq, default_response_class |-> "JSONResponse",
     openapi_prefix |-> "",
     title |-> "FastAPI", description |-> "", version |-> "0.1.0"]
PassedEmpty ==
    [exception_handlers |-> Some(<<>>), on_startup |-> Some(<<>>), on_shutdown |-> Some(<<>>),
     dependencies |-> Some(<<>>), openapi_tags |-> Some(<<>>), servers |-> Some(<<>>),
     debug |-> FALSE, openapi_url |-> "/openapi.json", docs_url |-> "/docs",
     redoc_url |-> "/redoc", swagger_ui_oauth2_redirect_url |-> "/docs/oauth2-redirect",
     swagger_ui_init_oauth |-> Some(<<>>), default_response_class |-> "JSONResponse",
     openapi_prefix |-> "",
     title |-> "FastAPI", description |-> "", version |-> "0.1.0"]
Passed ==
    [exception_handlers |-> Some(<<"404:h">>), on_startup |-> Some(<<"up">>),
     on_shutdown |-> Some(<<"down">>), dependencies |-> Some(<<"dep">>),
     openapi_tags |-> Some(<<"tag">>), servers |-> Some(<<"srv">>),
     debug |-> TRUE, openapi_url |-> "/api.json", docs_url |-> NoneStr,
     redoc_url |-> NoneStr, swagger_ui_oauth2_redirect_url |-> NoneStr,
     swagger_ui_init_oauth |-> Some(<<"clientId">>), default_response_class |-> "Response",
     openapi_prefix |-> "/v1",
     title |-> "App", description |-> "an app", version |-> "1.0"]

CtorArgs ==
    { [routes |-> "None", middleware |-> "None", other |-> Omitted],
      [routes |-> "E", middleware |-> "ET", other |-> PassedEmpty],
      [routes |-> "L", middleware |-> "M", other |-> Passed],
      [routes |-> "L", middleware |-> "T", other |-> Omitted] }

\* FastAPI.__init__ (lines 50-70): the attributes of the new registry.
FastAPI_init(a, kw, rheap, mheap) ==
    [ debug |-> kw.other.debug,
      routes |-> RoutesRef(a, kw.routes, rheap),
      title |-> kw.other.title,
      description |-> kw.other.description,
      version |-> kw.other.version,
      openapi_url |-> kw.other.openapi_url,
      openapi_tags |-> kw.other.openapi_tags,
      servers |-> kw.other.servers,
      docs_url |-> kw.other.docs_url,
      redoc_url |-> kw.other.redoc_url,
      swagger_ui_oauth2_redirect_url |-> kw.other.swagger_ui_oauth2_redirect_url,
      swagger_ui_init_oauth |-> kw.other.swagger_ui_init_oauth,
      middleware |-> MiddlewareRef(a, kw.middleware, mheap),
      exception_handlers |-> OrEmpty(kw.other.exception_handlers),
      on_startup |-> OrEmpty(kw.other.on_startup),
      on_shutdown |-> OrEmpty(kw.other.on_shutdown),
      default_response_class |-> kw.other.default_response_class,
      dependencies |-> OrEmpty(kw.other.dependencies),
      openapi_prefix |-> kw.other.openapi_prefix,
      openapi_schema |-> NoneDoc,
      openapi_schema_cache |-> NoneDoc ]

\* ------------------------------------------------------- the call record
NoOverrides ==
    [title |-> NoneStr, version |-> NoneStr, description |-> NoneStr,
     routes |-> NoneSeq, tags |-> NoneSeq, servers |-> NoneSeq]

NoCall ==
    [op |-> "__init__", app |-> "", err |-> "", val |-> NoneDoc, invoked |-> FALSE,
     args |-> <<>>]

\* ------------------------------------------------------------------ Init
\* The state after the registries in `regs` have been constructed.
Constructed(regs) ==
    /\ routeHeap = [id \in RouteLists |->
                      IF id \in {"L", "E"} THEN CallerObjects[id].items
                      ELSE IF id = RouterRoutes THEN <<"r2">> ELSE <<>>]
    /\ mwHeap = [id \in MwSeqs |->
                   IF id \in {"M", "T", "ET"} THEN CallerObjects[id]
                   ELSE [tuple |-> FALSE, items |-> <<>>]]
    /\ ctor \in [regs -> CtorArgs]
    /\ app = [a \in regs |-> FastAPI_init(a, ctor[a], routeHeap, mwHeap)]
    /\ generator \in Generators
    /\ genCalls = 0
    /\ firstDoc = [a \in regs |-> <<>>]
    /\ ret = NoCall

\* One registry; two registries.
Init == Constructed({"A"})
InitPair == Constructed(Apps)

\* ------------------------------------------------------------- accessors
RoutesOf(a) == routeHeap[app[a].routes]
MiddlewareOf(a) == mwHeap[app[a].middleware].items
Live == DOMAIN app
Routers == Live \cup {"R"}
\* router.routes (line 98): the list object a router holds.
RouterRoutesRef(r) == IF r \in Live THEN app[r].routes ELSE RouterRoutes

Call(op, a) == [NoCall EXCEPT !.op = op, !.app = a]

\* --------------------------------------------------------- add_middleware
\* list.append on the stored sequence (line 77); a tuple has no append.
add_middleware(a, cls, options) ==
    LET ref == app[a].middleware
        c == Call("add_middleware", a)
    IN IF mwHeap[ref].tuple
       THEN /\ ret' = [c EXCEPT !.err = "AttributeError"]
            /\ UNCHANGED <<app, ctor, routeHeap, mwHeap, generator, genCalls, firstDoc>>
       ELSE /\ Len(mwHeap[ref].items) < MaxMiddleware
            /\ mwHeap' = [mwHeap EXCEPT ![ref].items = Append(@, Middleware(cls, options))]
            /\ ret' = c
            /\ UNCHANGED <<app, ctor, routeHeap, generator, genCalls, firstDoc>>

\* -------------------------------------------------------------- add_route
\* self.routes.append(route) (line 84): the new contents of the list.
AppendPath(contents, path, route) == Append(contents, path)
AppendRoute(contents, path, route) == Append(contents, route)

add_route(a, path, route) ==
    LET ref == app[a].routes IN
    /\ Len(routeHeap[ref]) < MaxRoutes
    /\ routeHeap' = [routeHeap EXCEPT ![ref] = AppendRoute(@, path, route)]
    /\ ret' = Call("add_route", a)
    /\ UNCHANGED <<app, ctor, mwHeap, generator, genCalls, firstDoc>>

\* --------------------------------------------------------- include_router
\* self.routes.extend(router.routes) (line 98); none of the keyword
\* arguments (lines 90-96) is read.
include_router(a, router, prefix, tags) ==
    LET ref == app[a].routes
        src == routeHeap[RouterRoutesRef(router)]
    IN /\ Len(routeHeap[ref]) + Len(src) <= MaxRoutes
       /\ routeHeap' = [routeHeap EXCEPT ![ref] = @ \o src]
       /\ ret' = Call("include_router", a)
       /\ UNCHANGED <<app, ctor, mwHeap, generator, genCalls, firstDoc>>


\* ------------------------------------------------------------ get_openapi
\* Keyword overrides of get_openapi (lines 103-108): each absent (None),
\* supplied empty, or supplied non-empty.
Override(field, value) ==
    CASE field = "title" -> [NoOverrides EXCEPT !.title = value]
      [] field = "version" -> [NoOverrides EXCEPT !.version = value]
      [] field = "description" -> [NoOverrides EXCEPT !.description = value]
      [] field = "routes" -> [NoOverrides EXCEPT !.routes = value]
      [] field = "tags" -> [NoOverrides EXCEPT !.tags = value]
      [] field = "servers" -> [NoOverrides EXCEPT !.servers = value]

Overrides ==
    {NoOverrides}
    \cup {Override(f, v) : f \in {"title", "version", "description"}, v \in {"", "X"}}
    \cup {Override("routes", v) : v \in {Some(<<>>), Some(<<"r2">>)}}
    \cup {Override(f, v) : f \in {"tags", "servers"}, v \in {Some(<<>>), Some(<<"x">>)}}
    \cup {[title |-> "", version |-> "", description |-> "",
           routes |-> Some(<<>>), tags |-> Some(<<>>), servers |-> Some(<<>>)],
          [title |-> "X", version |-> "X", description |-> "X",
           routes |-> Some(<<"r2">>), tags |-> Some(<<"x">>), servers |-> Some(<<"x">>)]}

\* The keyword arguments handed to the external get_openapi (lines 113-118):
\* `override or self.<attribute>`.
GeneratorArgs(apps, a, ov) ==
    [ title |-> IF TruthyStr(ov.title) THEN ov.title ELSE apps[a].title,
      version |-> IF TruthyStr(ov.version) THEN ov.version ELSE apps[a].version,
      description |->
          IF TruthyStr(ov.description) THEN ov.description ELSE apps[a].description,
      routes |-> IF TruthySeq(ov.routes) THEN ov.routes.v ELSE routeHeap[apps[a].routes],
      tags |-> IF TruthySeq(ov.tags) THEN ov.tags ELSE apps[a].openapi_tags,
      servers |-> IF TruthySeq(ov.servers) THEN ov.servers ELSE apps[a].servers ]

\* fastapi.openapi.utils.get_openapi (imported, line 15) is external: a call
\* raises, or returns a document that is a function of the arguments and may
\* be the empty dict.  Which function it is, is fixed at Init: one that always
\* returns a non-empty document, or one that returns {} when it is given no
\* routes.
Outcomes == {"full", "empty", "raise"}
GeneratorAllows(args, out) ==
    \/ out = "raise"
    \/ out = "empty" /\ generator = "empty_without_routes" /\ args.routes = <<>>
    \/ out = "full" /\ (generator = "full"
                         \/ (generator = "empty_without_routes" /\ args.routes # <<>>))

\* FastAPI.get_openapi (lines 110-121) when the generator's outcome is `out`:
\* the attributes afterwards, the value returned or the error raised, and
\* whether the generator was invoked (and with what).
get_openapi_stores_then_fails(apps, a, ov, out) ==
    IF TruthyDoc(apps[a].openapi_schema_cache)
    THEN [apps |-> apps, val |-> apps[a].openapi_schema_cache, err |-> "",
          invoked |-> FALSE, args |-> <<>>]
    ELSE LET args == GeneratorArgs(apps, a, ov)
             doc == IF out = "full" THEN FullDoc(args) ELSE EmptyDoc
             stored == [apps EXCEPT ![a].openapi_schema = doc,
                                    ![a].openapi_schema_cache = doc]
         IN IF out = "raise"
            THEN [apps |-> stored, val |-> NoneDoc, err |-> "GeneratorError",
                  invoked |-> TRUE, args |-> <<args>>]
            ELSE [apps |-> stored, val |-> doc, err |-> "",
                  invoked |-> TRUE, args |-> <<args>>]

get_openapi(apps, a, ov, out) ==
    IF TruthyDoc(apps[a].openapi_schema_cache)
    THEN [apps |-> apps, val |-> apps[a].openapi_schema_cache, err |-> "",
          invoked |-> FALSE, args |-> <<>>]
    ELSE LET args == GeneratorArgs(apps, a, ov) IN
         IF out = "raise"
         THEN [apps |-> apps, val |-> NoneDoc, err |-> "GeneratorError",
               invoked |-> TRUE, args |-> <<args>>]
         ELSE LET doc == IF out = "full" THEN FullDoc(args) ELSE EmptyDoc
                  a112 == [apps EXCEPT ![a].openapi_schema = doc]
                  a120 == [a112 EXCEPT ![a].openapi_schema_cache =
                                           a112[a].openapi_schema]
              IN [apps |-> a120, val |-> a120[a].openapi_schema, err |-> "",
                  invoked |-> TRUE, args |-> <<args>>]

\* FastAPI.openapi (lines 124-126).
openapi(apps, a, out) ==
    IF ~TruthyDoc(apps[a].openapi_schema)
    THEN LET r == get_openapi(apps, a, NoOverrides, out) IN
         IF r.err # "" THEN r
         ELSE LET a125 == [r.apps EXCEPT ![a].openapi_schema = r.val]
              IN [r EXCEPT !.apps = a125, !.val = a125[a].openapi_schema]
    ELSE [apps |-> apps, val |-> apps[a].openapi_schema, err |-> "",
          invoked |-> FALSE, args |-> <<>>]

\* One schema request: the method's effect r, under the generator's outcome.
SchemaStep(r, out, c) ==
    /\ IF r.invoked
       THEN genCalls < MaxGenCalls /\ GeneratorAllows(r.args[1], out)
       ELSE out = "full"   \* the outcome matters only to an invocation
    /\ app' = r.apps
    /\ genCalls' = IF r.invoked THEN genCalls + 1 ELSE genCalls
    /\ ret' = [c EXCEPT !.err = r.err, !.val = r.val, !.invoked = r.invoked,
                        !.args = r.args]
    /\ UNCHANGED <<ctor, routeHeap, mwHeap, generator>>

GetOpenapi(a, ov) ==
    \E out \in Outcomes :
        /\ SchemaStep(get_openapi(app, a, ov, out), out,
                      Call("get_openapi", a))
        /\ UNCHANGED firstDoc

Openapi(a) ==
    \E out \in Outcomes :
        LET r == openapi(app, a, out) IN
        /\ SchemaStep(r, out, Call("openapi", a))
        /\ firstDoc' = IF r.err = "" /\ firstDoc[a] = <<>>
                       THEN [firstDoc EXCEPT ![a] = <<r.val>>] ELSE firstDoc

\* ---------------------------------------------------- setup, mount, host
\* `pass` (lines 130, 134, 138).
setup(a) ==
    /\ ret' = Call("setup", a)
    /\ UNCHANGED <<app, ctor, routeHeap, mwHeap, generator, genCalls, firstDoc>>

mount(a, path, sub) ==
    /\ ret' = Call("mount", a)
    /\ UNCHANGED <<app, ctor, routeHeap, mwHeap, generator, genCalls, firstDoc>>

host(a, hostname) ==
    /\ ret' = Call("host", a)
    /\ UNCHANGED <<app, ctor, routeHeap, mwHeap, generator, genCalls, firstDoc>>

\* ------------------------------------------------------------------ Next
AddMiddleware == \E a \in Live, cls \in MwClasses, o \in MwOptions : add_middleware(a, cls, o)
AddRoute == \E a \in Live, p \in Paths, r \in RouteObjs : add_route(a, p, r)
IncludeRouter ==
    \E a \in Live, r \in Routers, p \in Prefixes, t \in {NoneSeq, Some(<<"t">>)} :
        include_router(a, r, p, t)
ComputeSchema == \E a \in Live, ov \in Overrides : GetOpenapi(a, ov)
GetSchema == \E a \in Live : Openapi(a)
Setup == \E a \in Live : setup(a)
Mount == \E a \in Live, sub \in Live : mount(a, "/sub", sub)
Host == \E a \in Live : host(a, "127.0.0.1")

Next ==
    \/ AddMiddleware
    \/ AddRoute
    \/ IncludeRouter
    \/ ComputeSchema
    \/ GetSchema
    \/ Setup
    \/ Mount
    \/ Host

\* The calls that mutate the collections.
NextMutators ==
    \/ AddMiddleware
    \/ AddRoute
    \/ IncludeRouter

\* One registry under every operation.
Spec == Init /\ [][Next]_vars
\* Two registries (which may have been handed the same caller's list) under
\* the mutating operations.
SpecPair == InitPair /\ [][NextMutators]_vars


\* ==================================================================== claims

\* The registry was constructed with no collection argument at all.
DefaultCtor(a) ==
    ctor[a].routes = "None" /\ ctor[a].middleware = "None" /\ ctor[a].other = Omitted

Mutators == {"add_route", "include_router", "add_middleware"}

\* C1: once openapi() on a registry has returned a document D, every later
\* openapi() on that registry returns D, whatever add_route, include_router
\* and add_middleware calls came in between.
C1_SchemaNeverInvalidated ==
    \A a \in Live :
        (ret.op = "openapi" /\ ret.app = a /\ ret.err = "" /\ firstDoc[a] # <<>>)
            => ret.val = firstDoc[a][1]

\* C2: once get_openapi has stored a result, every later get_openapi call
\* returns that stored document, whatever the overrides, and does not invoke
\* the external generator again.
C2_CachedResultReturned ==
    [][\A a \in Live, ov \in Overrides :
          (GetOpenapi(a, ov) /\ ~app[a].openapi_schema_cache.isNone)
              => /\ ret'.err = ""
                 /\ ret'.val = app[a].openapi_schema_cache
                 /\ genCalls' = genCalls]_vars

\* The arguments the claim C3 expects: the override when one is supplied,
\* the registry's own value only when the override is absent.
SuppliedOrOwn(a, ov) ==
    [ title |-> IF ov.title # NoneStr THEN ov.title ELSE app[a].title,
      version |-> IF ov.version # NoneStr THEN ov.version ELSE app[a].version,
      description |->
          IF ov.description # NoneStr THEN ov.description ELSE app[a].description,
      routes |-> IF ~ov.routes.isNone THEN ov.routes.v ELSE RoutesOf(a),
      tags |-> IF ~ov.tags.isNone THEN ov.tags ELSE app[a].openapi_tags,
      servers |-> IF ~ov.servers.isNone THEN ov.servers ELSE app[a].servers ]

\* C3: on a registry with no cached schema, get_openapi calls the external
\* generator with, for each of title, version, description, routes, tags and
\* servers, the override when one is supplied (an empty string or sequence
\* included) and the registry's own value only when it is absent.
C3_OverridesReachGenerator ==
    [][\A a \in Live, ov \in Overrides :
          (GetOpenapi(a, ov) /\ app[a].openapi_schema_cache.isNone)
              => (ret'.invoked /\ ret'.args = <<SuppliedOrOwn(a, ov)>>)]_vars

C5_FreshCollections ==
    /\ \A a \in Live :
          DefaultCtor(a)
              => /\ RoutesOf(a) = <<>> /\ MiddlewareOf(a) = <<>>
                 /\ app[a].exception_handlers = Some(<<>>)
                 /\ app[a].openapi_schema = NoneDoc
                 /\ \A b \in Live \ {a} :
                       /\ app[b].routes # app[a].routes
                       /\ app[b].middleware # app[a].middleware
    /\ [][\A a \in Live, b \in Live :
             (a # b /\ DefaultCtor(a) /\ DefaultCtor(b)
                /\ ret'.app = a /\ ret'.op \in Mutators)
                 => /\ RoutesOf(b)' = RoutesOf(b)
                    /\ MiddlewareOf(b)' = MiddlewareOf(b)]_vars

\* C5 witness: A and B both constructed without arguments, A mutated by all
\* three mutating calls, B still empty.
C5_Witness ==
    /\ DefaultCtor("A") /\ DefaultCtor("B")
    /\ ret.app = "A" /\ ret.op = "add_middleware"
    /\ Len(RoutesOf("A")) = 2 /\ MiddlewareOf("A") # <<>>
    /\ RoutesOf("B") = <<>> /\ MiddlewareOf("B") = <<>>

\* C6 (as stated): after construction every omitted collection option
\* (routes, openapi_tags, servers, middleware, exception_handlers, on_startup,
\* on_shutdown, dependencies) is stored as an empty collection, never None.
C6_EveryOmittedCollectionStoredEmpty ==
    ret.op = "__init__" =>
        \A a \in Live :
            /\ ctor[a].routes = "None" => RoutesOf(a) = <<>>
            /\ ctor[a].middleware = "None" => MiddlewareOf(a) = <<>>
            /\ ctor[a].other.exception_handlers.isNone
                  => app[a].exception_handlers = Some(<<>>)
            /\ ctor[a].other.on_startup.isNone => app[a].on_startup = Some(<<>>)
            /\ ctor[a].other.on_shutdown.isNone => app[a].on_shutdown = Some(<<>>)
            /\ ctor[a].other.dependencies.isNone => app[a].dependencies = Some(<<>>)
            /\ ctor[a].other.openapi_tags.isNone => app[a].openapi_tags = Some(<<>>)
            /\ ctor[a].other.servers.isNone => app[a].servers = Some(<<>>)

\* C6 (amended): after construction an omitted routes, middleware,
\* exception_handlers, on_startup, on_shutdown or dependencies is stored as an
\* empty list or mapping (the middleware one a list, not a tuple); an omitted
\* openapi_tags or servers is stored as None.
C6_OmittedStoredEmptyButTagsServersNone ==
    ret.op = "__init__" =>
        \A a \in Live :
            /\ ctor[a].routes = "None" => RoutesOf(a) = <<>>
            /\ ctor[a].middleware = "None"
                  => mwHeap[app[a].middleware] = [tuple |-> FALSE, items |-> <<>>]
            /\ ctor[a].other.exception_handlers.isNone
                  => app[a].exception_handlers = Some(<<>>)
            /\ ctor[a].other.on_startup.isNone => app[a].on_startup = Some(<<>>)
            /\ ctor[a].other.on_shutdown.isNone => app[a].on_shutdown = Some(<<>>)
            /\ ctor[a].other.dependencies.isNone => app[a].dependencies = Some(<<>>)
            /\ ctor[a].other.openapi_tags.isNone => app[a].openapi_tags = NoneSeq
            /\ ctor[a].other.servers.isNone => app[a].servers = NoneSeq

\* C6 witness: a registry just constructed with every collection omitted.
C6_Witness ==
    /\ ret.op = "__init__" /\ DefaultCtor("A")
    /\ app["A"].dependencies = Some(<<>>) /\ app["A"].on_startup = Some(<<>>)
    /\ app["A"].openapi_tags = NoneSeq /\ app["A"].servers = NoneSeq

\* C7: add_route(path, route) makes routes its value before the call followed
\* by route (so n calls append R1..Rn in call order, duplicates kept), and
\* the state afterwards is the same for every path.
C7_AddRouteAppendsInOrder ==
    [][\A a \in Live, p \in Paths, r \in RouteObjs :
          add_route(a, p, r)
              => /\ RoutesOf(a)' = RoutesOf(a) \o <<r>>
                 /\ \A id \in RouteLists \ {app[a].routes} :
                       routeHeap'[id] = routeHeap[id]
                 /\ UNCHANGED <<app, mwHeap, generator, genCalls, firstDoc>>
                 /\ ret'.err = ""]_vars

\* C7 witness: two add_route calls with the same route on an empty registry.
C7_Witness ==
    /\ ret.op = "add_route" /\ ret.app = "A" /\ ret.err = ""
    /\ ctor["A"].routes = "None"
    /\ RoutesOf("A") = <<"r2", "r2">>

\* C8: include_router(r, ...) makes routes the prior routes followed by r's
\* routes in r's order, whatever prefix and tags are, and a router other than
\* the registry itself keeps its own routes unchanged.
C8_IncludeRouterMerges ==
    [][\A a \in Live, r \in Routers, p \in Prefixes, t \in {NoneSeq, Some(<<"t">>)} :
          include_router(a, r, p, t)
              => /\ RoutesOf(a)' = RoutesOf(a) \o routeHeap[RouterRoutesRef(r)]
                 /\ r # a => routeHeap'[RouterRoutesRef(r)]
                                = routeHeap[RouterRoutesRef(r)]]_vars

\* C9: add_middleware(T, options) never fails and appends exactly one
\* (T, options) entry at the end of middleware, leaving everything else as it
\* was, on every registry, one constructed with an initial middleware
\* sequence included.
C9_AddMiddlewareAppends ==
    [][\A a \in Live, cls \in MwClasses, o \in MwOptions :
          add_middleware(a, cls, o)
              => /\ ret'.err = ""
                 /\ MiddlewareOf(a)' = Append(MiddlewareOf(a), Middleware(cls, o))
                 /\ UNCHANGED <<app, routeHeap, generator, genCalls, firstDoc>>]_vars

\* C10: the two slots openapi_schema and _openapi_schema_cache are both unset
\* or hold the same document, and once a slot is populated it never becomes
\* unset and never changes.
C10_SlotsAgreeAndOneWay ==
    /\ [](\A a \in Live : app[a].openapi_schema = app[a].openapi_schema_cache)
    /\ [][\A a \in Live :
             /\ ~app[a].openapi_schema.isNone
                   => app'[a].openapi_schema = app[a].openapi_schema
             /\ ~app[a].openapi_schema_cache.isNone
                   => app'[a].openapi_schema_cache = app[a].openapi_schema_cache]_vars

====
